---- MODULE Spec2Model ----
(***************************************************************************)
(* Model of wellness/db.py: a single SQLite table fitness_plan, written by *)
(* save_plan and read by get_plans, each preceded by init_db.              *)
(*                                                                         *)
(* Spec      : single caller, one action per whole handler call.           *)
(* SpecConc  : two callers whose handlers interleave statement by          *)
(*             statement over the shared database file.                    *)
(***************************************************************************)
EXTENDS Integers, Sequences, FiniteSets, TLC

\* ------------------------------------------------------------------ bounds
MaxRows == 2        \* saves are enabled while the table holds fewer rows

\* ------------------------------------------------------------------ inputs
None == "None"                       \* Python None / SQL NULL
Profiles == {"p1", "p2"}
Texts == {"A", "B"}
Days == {"", "Saturday"}             \* day values passed to save_plan
QueryDays == {"", "Friday", "Saturday"}
Sources == {"agent"}
Callers == {1, 2}

\* The calendar days the clock readings fall on: weekday as date.weekday()
\* numbers it (Monday = 0).
Calendar ==
  [k \in 0..2 |->
     CASE k = 0 -> [year |-> 2026, month |-> 10, day |-> 30, weekday |-> 4]
       [] k = 1 -> [year |-> 2026, month |-> 10, day |-> 31, weekday |-> 5]
       [] k = 2 -> [year |-> 2026, month |-> 11, day |-> 1, weekday |-> 6]]

\* UTC clock readings: midnight exactly (microsecond 0) and one microsecond
\* later, both on Saturday 2026-10-31.
Instants ==
  { [date |-> 1, hour |-> 0, minute |-> 0, second |-> 0, microsecond |-> 0],
    [date |-> 1, hour |-> 0, minute |-> 0, second |-> 0, microsecond |-> 1] }

\* Offsets of the local time zone from UTC, in hours.
TzOffsets == {-1, 1}

\* --------------------------------------------------------- text and time
\* Text values are sequences of character codes, compared as SQLite's
\* default BINARY collation compares them.
Digit(d) == 48 + d

RECURSIVE Pad(_, _)
\* zero-padded decimal of n on w digits ("%0wd")
Pad(w, n) == IF w = 0 THEN << >> ELSE Pad(w - 1, n \div 10) \o << Digit(n % 10) >>

\* chronological order of two UTC clock readings
Later(a, b) ==
  LET ka == << a.date, a.hour, a.minute, a.second, a.microsecond >>
      kb == << b.date, b.hour, b.minute, b.second, b.microsecond >>
  IN \E i \in 1..5 : /\ ka[i] > kb[i]
                     /\ \A j \in 1..(i - 1) : ka[j] = kb[j]

\* Variant: the UTC offset written as the suffix Z.
UtcIsoFormatZ(t) ==
  LET d == Calendar[t.date]
  IN Pad(4, d.year) \o << 45 >> \o Pad(2, d.month) \o << 45 >> \o Pad(2, d.day)
       \o << 84 >> \o Pad(2, t.hour) \o << 58 >> \o Pad(2, t.minute)
       \o << 58 >> \o Pad(2, t.second)
       \o (IF t.microsecond = 0 THEN << >> ELSE << 46 >> \o Pad(6, t.microsecond))
       \o << 90 >>

\* datetime.now(timezone.utc).isoformat(): YYYY-MM-DDTHH:MM:SS[.ffffff]+00:00,
\* the fraction being omitted when microsecond is 0.
UtcIsoFormat(t) ==
  LET d == Calendar[t.date]
  IN Pad(4, d.year) \o << 45 >> \o Pad(2, d.month) \o << 45 >> \o Pad(2, d.day)
       \o << 84 >> \o Pad(2, t.hour) \o << 58 >> \o Pad(2, t.minute)
       \o << 58 >> \o Pad(2, t.second)
       \o (IF t.microsecond = 0 THEN << >> ELSE << 46 >> \o Pad(6, t.microsecond))
       \o << 43, 48, 48, 58, 48, 48 >>

\* created_at of each clock reading, as save_plan line 46 computes it
CreatedAt == [n \in Instants |-> UtcIsoFormat(n)]

\* a < b under BINARY collation: memcmp over the common length, decided by
\* the first differing character, else the shorter text comes first
TextLess(a, b) ==
  LET n == IF Len(a) < Len(b) THEN Len(a) ELSE Len(b)
      diff == { i \in 1..n : a[i] # b[i] }
  IN IF diff = {} THEN Len(a) < Len(b)
     ELSE LET k == CHOOSE i \in diff : \A j \in diff : i <= j
          IN a[k] < b[k]

\* the calendar day of the local wall clock at UTC reading t
LocalDate(t, tz) ==
  IF t.hour + tz < 0 THEN t.date - 1
  ELSE IF t.hour + tz >= 24 THEN t.date + 1
  ELSE t.date

WeekdayName ==
  [w \in 0..6 |->
     CASE w = 0 -> "Monday" [] w = 1 -> "Tuesday" [] w = 2 -> "Wednesday"
       [] w = 3 -> "Thursday" [] w = 4 -> "Friday" [] w = 5 -> "Saturday"
       [] w = 6 -> "Sunday"]

\* Variant: the weekday of the UTC date.
TodayWeekdayUtc(t, tz) == WeekdayName[Calendar[t.date].weekday]

\* datetime.now().strftime("%A")
_today_weekday(t, tz) == WeekdayName[Calendar[LocalDate(t, tz)].weekday]


\* ------------------------------------------------------------------ state
VARIABLES
  fileExists,    \* the database file DB_PATH exists
  tableExists,   \* the file holds table fitness_plan
  rows,          \* committed rows of fitness_plan, in insertion order
  seq,           \* sqlite_sequence entry of fitness_plan (AUTOINCREMENT)
  insertedAt,    \* per row, the clock reading its created_at was made from
  last,          \* outcome of the most recent call of the single caller
  pc,            \* per caller, the statement it is about to run
  req,           \* per caller, the arguments and locals of its call
  pend,          \* per caller, rows its connection inserted but not committed
  res,           \* per caller, the outcome of its most recent finished call
  adm            \* per caller, results a committed table offered its get_plans

dbvars == << fileExists, tableExists, rows, seq, insertedAt >>
concvars == << pc, req, pend, res, adm >>
vars == << fileExists, tableExists, rows, seq, insertedAt, last, pc, req, pend, res, adm >>

NoArg == "-"
NoId == 0

\* ------------------------------------------------------------ connections
\* sqlite3.connect(DB_PATH): a fresh open connection.
get_connection == "open"

\* Connection.__exit__ of the with block: commits, or rolls back when the
\* block raised, and leaves the connection open.
ConnectionExit(conn) == conn

\* The local variable conn when its function is left, no close() having been
\* called: after a normal return nothing refers to the connection any more
\* and the interpreter closes it when it finalizes the object; after a raise
\* the traceback's frame still refers to it and it stays open.
LeaveScope(conn, raised) ==
  IF conn = "open" /\ ~raised THEN "unreferenced" ELSE conn

\* ------------------------------------------------------------- statements
\* Variant: the table is created anew on every call.
CreateTableAnew(exists, rs) == << >>

\* CREATE TABLE IF NOT EXISTS fitness_plan (...): the rows afterwards
CreateTableIfNotExists(exists, rs) == IF exists THEN rs ELSE << >>

\* Variant: day_of_the_week declared without NOT NULL.
NotNullViolatedButDay(profile, plan_text, created_at, day) ==
  profile = None \/ plan_text = None \/ created_at = None

\* NOT NULL columns of the INSERT: profile, plan_text, created_at,
\* day_of_the_week (source is nullable)
NotNullViolated(profile, plan_text, created_at, day) ==
  profile = None \/ plan_text = None \/ created_at = None \/ day = None

RECURSIVE MaxRowId(_)
MaxRowId(rs) ==
  IF rs = << >> THEN 0
  ELSE LET m == MaxRowId(Tail(rs)) IN IF Head(rs).id > m THEN Head(rs).id ELSE m

\* Variant: the id is the number of rows the table held before the insert.
NextRowIdCount(sq, rs) == IF Len(rs) = 0 THEN 1 ELSE Len(rs)

\* INTEGER PRIMARY KEY AUTOINCREMENT: one more than the largest id ever used
NextRowId(sq, rs) == (IF sq > MaxRowId(rs) THEN sq ELSE MaxRowId(rs)) + 1

\* Variant: an empty day is replaced by a weekday when the row is written.
NewRowDayDefaulted(id, profile, plan_text, created_at, source, day) ==
  [id |-> id, profile |-> profile, plan_text |-> plan_text,
   created_at |-> created_at, source |-> source,
   day_of_the_week |-> IF day = "" THEN "Saturday" ELSE day]

NewRow(id, profile, plan_text, created_at, source, day) ==
  [id |-> id, profile |-> profile, plan_text |-> plan_text,
   created_at |-> created_at, source |-> source, day_of_the_week |-> day]

\* Variant: WHERE profile = ? only.
MatchingProfile(rs, profile, day) ==
  { i \in 1..Len(rs) : rs[i].profile = profile }

\* WHERE profile = ? AND day_of_the_week = ?
Matching(rs, profile, day) ==
  { i \in 1..Len(rs) : rs[i].profile = profile /\ rs[i].day_of_the_week = day }

\* Variant: ORDER BY created_at ASC.
FirstByCreatedAtAsc(rs, profile, day) ==
  { i \in Matching(rs, profile, day) :
      \A j \in Matching(rs, profile, day) :
        ~TextLess(rs[j].created_at, rs[i].created_at) }

\* ORDER BY created_at DESC LIMIT 1: the rows that may come first (SQLite
\* leaves the order of rows with equal created_at unspecified)
FirstByCreatedAtDesc(rs, profile, day) ==
  { i \in Matching(rs, profile, day) :
      \A j \in Matching(rs, profile, day) :
        ~TextLess(rs[i].created_at, rs[j].created_at) }

\* fetchone() and "row[0] if row else ''": the values get_plans may return
SelectLatest(rs, profile, day) ==
  IF Matching(rs, profile, day) = {} THEN {""}
  ELSE { rs[i].plan_text : i \in FirstByCreatedAtDesc(rs, profile, day) }

\* ---------------------------------------------------------------- results
\* refusal of a call that raised OperationalError tells which refusal of the
\* store the error reports; it is "none" in every other outcome.
Outcome(op, ok, err, refusal, id, text, profile, dayArg, day, now, tz, conns) ==
  [op |-> op, ok |-> ok, err |-> err, refusal |-> refusal, id |-> id,
   text |-> text, profile |-> profile, dayArg |-> dayArg, day |-> day,
   now |-> now, tz |-> tz, conns |-> conns]

NoCall ==
  Outcome("none", TRUE, NoArg, "none", NoId, NoArg, NoArg, NoArg, NoArg, NoArg,
          0, << >>)

\* the connection init_db opened, as init_db leaves it
InitDbConn == LeaveScope(ConnectionExit(get_connection), FALSE)

\* ------------------------------------------------------- the store refusing
\* How the store behind DB_PATH refuses during a call:
\*   "none"      it accepts everything;
\*   "disk"      the disk is full or writing to it fails with an I/O error
\*               (an empty file can still be created);
\*   "inode"     the file system has no free inode: no file can be created,
\*               neither the database file nor the journal a write needs;
\*   "lock"      another process holds the write lock (a RESERVED lock) past
\*               the connection's timeout: reads go through, writes do not;
\*   "exclusive" another process holds the EXCLUSIVE lock past the timeout:
\*               neither reads nor writes go through;
\*   "readonly"  the file and its directory are on a read-only file system.
Refusals == {"none", "disk", "inode", "lock", "exclusive", "readonly"}

\* sqlite3.connect(DB_PATH) raises: the file is not there and cannot be
\* created
ConnectRaises(exists, refusal) == ~exists /\ refusal \in {"readonly", "inode"}

\* init_db() raises: CREATE TABLE has to write the schema when the table is
\* not there yet, and the store refuses writes; with the table present the
\* statement writes nothing but still has to read the schema, which an
\* EXCLUSIVE lock of another process forbids.
InitDbRaises(exists, refusal) ==
  refusal = "exclusive" \/ (~exists /\ refusal # "none")

\* the SELECT of lines 72-75 raises: the file cannot be read under another
\* process's EXCLUSIVE lock
SelectRaises(refusal) == refusal = "exclusive"

\* the INSERT of lines 48-51 raises: a NULL in a NOT NULL column, or the store
\* refuses the write
InsertRaises(violated, refusal) == violated \/ refusal # "none"

\* The error the INSERT raises. Under a held lock or on a read-only file the
\* statement cannot start its write transaction and fails before any column
\* is checked; on a full disk or without a free inode the NOT NULL check
\* comes before the first write to the file.
InsertError(violated, refusal) ==
  IF refusal \in {"lock", "exclusive", "readonly"} THEN "OperationalError"
  ELSE IF violated THEN "IntegrityError"
  ELSE "OperationalError"

\* The connections of an init_db() that raised: none when get_connection
\* raised at line 16, else the one whose CREATE TABLE raised at line 24 and
\* which the traceback's frame still holds.
InitDbRaisedConns(exists, refusal) ==
  IF ConnectRaises(exists, refusal) THEN << >>
  ELSE << LeaveScope(ConnectionExit(get_connection), TRUE) >>

\* -------------------------------------------------- single caller: actions
Init ==
  /\ fileExists = FALSE
  /\ tableExists = FALSE
  /\ rows = << >>
  /\ seq = 0
  /\ insertedAt = << >>
  /\ last = NoCall
  /\ pc = [c \in Callers |-> "idle"]
  /\ req = [c \in Callers |-> NoCall]
  /\ pend = [c \in Callers |-> << >>]
  /\ res = [c \in Callers |-> NoCall]
  /\ adm = [c \in Callers |-> {}]

\* get_connection() called by the caller itself: the connection is returned
\* open, or sqlite3.connect raises and there is none.
GetConnectionCall(refusal) ==
  LET raised == ConnectRaises(fileExists, refusal)
  IN /\ fileExists' = (fileExists \/ ~raised)
     /\ last' = IF raised
                  THEN Outcome("get_connection", FALSE, "OperationalError",
                               refusal, NoId, NoArg, NoArg, NoArg, NoArg, NoArg,
                               0, << >>)
                  ELSE Outcome("get_connection", TRUE, NoArg, "none", NoId,
                               NoArg, NoArg, NoArg, NoArg, NoArg, 0,
                               << get_connection >>)
     /\ UNCHANGED << tableExists, rows, seq, insertedAt >>
     /\ UNCHANGED concvars

\* init_db() on a store refusing as refusal tells
init_db(refusal) ==
  IF InitDbRaises(tableExists, refusal)
    THEN \* get_connection raised at line 16, or CREATE TABLE at line 24:
         \* nothing was written
         /\ fileExists' = (fileExists \/ ~ConnectRaises(fileExists, refusal))
         /\ UNCHANGED << tableExists, rows, seq, insertedAt >>
         /\ last' = Outcome("init_db", FALSE, "OperationalError", refusal, NoId,
                            NoArg, NoArg, NoArg, NoArg, NoArg, 0,
                            InitDbRaisedConns(fileExists, refusal))
         /\ UNCHANGED concvars
    ELSE /\ fileExists' = TRUE
         /\ tableExists' = TRUE
         /\ rows' = CreateTableIfNotExists(tableExists, rows)
         /\ last' = Outcome("init_db", TRUE, NoArg, "none", NoId, NoArg, NoArg,
                            NoArg, NoArg, NoArg, 0, << InitDbConn >>)
         /\ UNCHANGED << seq, insertedAt >>
         /\ UNCHANGED concvars

\* save_plan(profile, plan_text, day, source) with the UTC clock reading now,
\* on a store refusing as refusal tells; late tells that the refusal sets in
\* only after init_db() has returned.
save_plan(profile, plan_text, day, source, now, refusal, late) ==
  LET early == IF late THEN "none" ELSE refusal
      table == CreateTableIfNotExists(tableExists, rows)
      created_at == CreatedAt[now]
      id == NextRowId(seq, table)
      violated == NotNullViolated(profile, plan_text, created_at, day)
      raised == InsertRaises(violated, refusal)
      err == InsertError(violated, refusal)
      conn == LeaveScope(ConnectionExit(get_connection), raised)
  IN IF InitDbRaises(tableExists, early)
       THEN \* line 45 raises out of init_db and nothing was written
            /\ fileExists' = (fileExists \/ ~ConnectRaises(fileExists, early))
            /\ UNCHANGED << tableExists, rows, seq, insertedAt >>
            /\ last' = Outcome("save_plan", FALSE, "OperationalError", early,
                               NoId, NoArg, NoArg, NoArg, NoArg, NoArg, 0,
                               InitDbRaisedConns(fileExists, early))
            /\ UNCHANGED concvars
       ELSE /\ raised \/ Len(rows) < MaxRows
            /\ fileExists' = TRUE
            /\ tableExists' = TRUE
            /\ IF raised
                 THEN /\ rows' = table
                      /\ UNCHANGED << seq, insertedAt >>
                      /\ last' = Outcome("save_plan", FALSE, err,
                                         IF err = "OperationalError"
                                           THEN refusal ELSE "none",
                                         NoId, NoArg, NoArg, NoArg, NoArg, NoArg,
                                         0, << InitDbConn, conn >>)
                 ELSE /\ rows' = Append(table, NewRow(id, profile, plan_text,
                                                      created_at, source, day))
                      /\ seq' = id
                      /\ insertedAt' = Append(insertedAt, now)
                      /\ last' = Outcome("save_plan", TRUE, NoArg, "none", id,
                                         plan_text, profile, day, day, NoArg, 0,
                                         << InitDbConn, conn >>)
            /\ UNCHANGED concvars

\* get_plans(profile, day) where dayArg = None stands for the omitted day;
\* now and tz are the clock and time zone _today_weekday reads; the store
\* refuses as refusal tells, from the start of the call or (late) only after
\* init_db() has returned.
get_plans(profile, dayArg, now, tz, refusal, late) ==
  LET early == IF late THEN "none" ELSE refusal
      table == CreateTableIfNotExists(tableExists, rows)
      day == IF dayArg = None THEN _today_weekday(now, tz) ELSE dayArg
      raised == SelectRaises(refusal)
      conn == LeaveScope(ConnectionExit(get_connection), raised)
  IN IF InitDbRaises(tableExists, early)
       THEN \* line 68 raises out of init_db: the day is not resolved, nothing
            \* is read and nothing was written
            /\ fileExists' = (fileExists \/ ~ConnectRaises(fileExists, early))
            /\ UNCHANGED << tableExists, rows, seq, insertedAt >>
            /\ last' = Outcome("get_plans", FALSE, "OperationalError", early,
                               NoId, NoArg, profile, dayArg, NoArg, NoArg, 0,
                               InitDbRaisedConns(fileExists, early))
            /\ UNCHANGED concvars
       ELSE /\ fileExists' = TRUE
            /\ tableExists' = TRUE
            /\ rows' = table
            /\ IF raised
                 THEN last' = Outcome("get_plans", FALSE, "OperationalError",
                                      refusal, NoId, NoArg, profile, dayArg, day,
                                      IF dayArg = None THEN now ELSE NoArg,
                                      IF dayArg = None THEN tz ELSE 0,
                                      << InitDbConn, conn >>)
                 ELSE \E text \in SelectLatest(table, profile, day) :
                        last' = Outcome("get_plans", TRUE, NoArg, "none", NoId,
                                        text, profile, dayArg, day,
                                        IF dayArg = None THEN now ELSE NoArg,
                                        IF dayArg = None THEN tz ELSE 0,
                                        << InitDbConn, conn >>)
            /\ UNCHANGED << seq, insertedAt >>
            /\ UNCHANGED concvars

ConnectCall == \E refusal \in Refusals : GetConnectionCall(refusal)

InitDbCall == \E refusal \in Refusals : init_db(refusal)

\* the clock reading of the calls that are made at one reading only
Midnight == CHOOSE n \in Instants : n.microsecond = 0

\* Calls of save_plan. On a store that accepts writes: every well-formed
\* argument list, at every clock reading for the first profile and at
\* midnight for the others, and one call per required argument passed as
\* None. On a store that refuses: for the whole call with well-formed
\* arguments and with a None among them, and from the INSERT on.
SaveInputs ==
  { [profile |-> p, plan_text |-> t, day |-> d, source |-> s, now |-> n,
     refusal |-> "none", late |-> FALSE] :
      p \in {"p1"}, t \in Texts, d \in Days, s \in Sources, n \in Instants }
  \cup
  { [profile |-> p, plan_text |-> t, day |-> d, source |-> s, now |-> Midnight,
     refusal |-> "none", late |-> FALSE] :
      p \in Profiles \ {"p1"}, t \in Texts, d \in Days, s \in Sources }
  \cup
  { [profile |-> a[1], plan_text |-> a[2], day |-> a[3], source |-> "agent",
     now |-> Midnight, refusal |-> a[4], late |-> a[5]] :
      a \in { << None, "A", "Saturday", "none", FALSE >>,
              << "p1", None, "Saturday", "none", FALSE >>,
              << "p1", "A", None, "none", FALSE >> }
            \cup { << "p1", "A", "Saturday", r, FALSE >> : r \in Refusals \ {"none"} }
            \cup { << None, "A", "Saturday", r, FALSE >> :
                     r \in {"disk", "lock", "readonly"} }
            \cup { << "p1", "A", "Saturday", "disk", TRUE >>,
                   << "p1", "A", "Saturday", "exclusive", TRUE >> } }

SaveCall ==
  \E a \in SaveInputs :
    save_plan(a.profile, a.plan_text, a.day, a.source, a.now, a.refusal, a.late)

\* get_plans with the day given, on a store that refuses nothing: the clock
\* is not read
GetDayCall ==
  \E profile \in Profiles, day \in QueryDays :
    get_plans(profile, day, CHOOSE n \in Instants : TRUE,
              CHOOSE z \in TzOffsets : TRUE, "none", FALSE)

\* get_plans with the day omitted, on a store that refuses nothing
GetTodayCall ==
  \E profile \in Profiles, now \in Instants, tz \in TzOffsets :
    get_plans(profile, None, now, tz, "none", FALSE)

\* Calls of get_plans on a store that refuses: with the day given under
\* every refusal, with the day omitted under a lock; late tells that the
\* refusal sets in only after init_db() has returned.
GetRefusedInputs ==
  { [dayArg |-> "Saturday", refusal |-> r, late |-> FALSE] :
      r \in Refusals \ {"none"} }
  \cup
  { [dayArg |-> None, refusal |-> r, late |-> FALSE] : r \in {"lock", "exclusive"} }
  \cup
  { [dayArg |-> d, refusal |-> "exclusive", late |-> TRUE] : d \in {"Saturday", None} }

GetRefusedCall ==
  \E a \in GetRefusedInputs :
    get_plans("p1", a.dayArg, Midnight, CHOOSE z \in TzOffsets : z > 0,
              a.refusal, a.late)

Next ==
  \/ ConnectCall \/ InitDbCall \/ SaveCall
  \/ GetDayCall \/ GetTodayCall \/ GetRefusedCall

Spec == Init /\ [][Next]_vars


\* ------------------------------------------------ two callers: statements
\* Each caller runs its handler one statement at a time on connections of
\* its own; the callers share only the database file.

ConcProfiles == {"p1"}
ConcDays == {"Saturday"}

\* the rows caller c's open transaction has inserted
PendingRows(c) == [i \in 1..Len(pend[c]) |-> pend[c][i].row]

\* Variant: a connection also reads what other connections have not committed.
VisibleUncommitted(c) == rows \o PendingRows(1) \o PendingRows(2)

\* what caller c's connection reads: the committed rows and the rows it has
\* itself inserted in its open transaction
Visible(c) == rows \o PendingRows(c)

\* another connection holds the file's write lock (an open transaction that
\* has inserted)
WriteLocked(c) == \E o \in Callers \ {c} : pend[o] # << >>

Request(op, profile, plan_text, dayArg, source) ==
  [op |-> op, profile |-> profile, plan_text |-> plan_text, dayArg |-> dayArg,
   source |-> source, day |-> NoArg, now |-> NoArg, tz |-> 0, id |-> NoId,
   text |-> NoArg]

\* save_plan line 45: init_db(); the caller's previous outcome is dropped
SaveEnter(c, profile, plan_text, day, source) ==
  /\ pc[c] = "idle"
  /\ fileExists' = TRUE
  /\ tableExists' = TRUE
  /\ rows' = CreateTableIfNotExists(tableExists, rows)
  /\ req' = [req EXCEPT ![c] = Request("save_plan", profile, plan_text, day, source)]
  /\ res' = [res EXCEPT ![c] = NoCall]
  /\ pc' = [pc EXCEPT ![c] = "save_stamp"]
  /\ UNCHANGED << seq, insertedAt, last, pend, adm >>

\* save_plan line 46: created_at = datetime.now(timezone.utc).isoformat()
SaveStamp(c, now) ==
  /\ pc[c] = "save_stamp"
  /\ req' = [req EXCEPT ![c].now = now]
  /\ pc' = [pc EXCEPT ![c] = "save_insert"]
  /\ UNCHANGED << dbvars, last, pend, res, adm >>

\* save_plan lines 47-51: the INSERT, in a transaction the connection opens;
\* it waits while another connection holds the write lock.
SaveInsert(c) ==
  LET r == req[c]
      id == NextRowId(seq, Visible(c))
  IN /\ pc[c] = "save_insert"
     /\ ~WriteLocked(c)
     /\ Len(rows) < MaxRows
     /\ pend' = [pend EXCEPT ![c] =
                   << [row |-> NewRow(id, r.profile, r.plan_text,
                                      CreatedAt[r.now], r.source, r.dayArg),
                       at |-> r.now] >>]
     /\ req' = [req EXCEPT ![c].id = id]
     /\ pc' = [pc EXCEPT ![c] = "save_commit"]
     /\ UNCHANGED << dbvars, last, res, adm >>

\* save_plan lines 47-51 when the wait for the write lock outlasts the
\* connection's busy timeout (sqlite3.connect's default of 5 seconds): the
\* INSERT raises OperationalError, the with block rolls back, the call ends.
SaveBusy(c) ==
  /\ pc[c] = "save_insert"
  /\ WriteLocked(c)
  /\ res' = [res EXCEPT ![c] =
               Outcome("save_plan", FALSE, "OperationalError", "lock",
                       NoId, req[c].plan_text, req[c].profile, req[c].dayArg,
                       req[c].dayArg, NoArg, 0, << >>)]
  /\ pc' = [pc EXCEPT ![c] = "idle"]
  /\ UNCHANGED << dbvars, last, req, pend, adm >>

\* save_plan line 52: conn.commit() makes the inserted row visible to all
SaveCommit(c) ==
  /\ pc[c] = "save_commit"
  /\ rows' = rows \o PendingRows(c)
  /\ insertedAt' = insertedAt \o [i \in 1..Len(pend[c]) |-> pend[c][i].at]
  /\ seq' = req[c].id
  /\ pend' = [pend EXCEPT ![c] = << >>]
  /\ adm' = [o \in Callers |->
               IF o # c /\ pc[o] = "get_select"
                 THEN adm[o] \cup SelectLatest(rows', req[o].profile, req[o].day)
                 ELSE adm[o]]
  /\ pc' = [pc EXCEPT ![c] = "save_return"]
  /\ UNCHANGED << fileExists, tableExists, last, req, res >>

\* save_plan line 53: return cur.lastrowid
SaveReturn(c) ==
  /\ pc[c] = "save_return"
  /\ res' = [res EXCEPT ![c] =
               Outcome("save_plan", TRUE, NoArg, "none", req[c].id, req[c].plan_text,
                       req[c].profile, req[c].dayArg, req[c].dayArg, NoArg, 0,
                       << >>)]
  /\ pc' = [pc EXCEPT ![c] = "idle"]
  /\ UNCHANGED << dbvars, last, req, pend, adm >>

\* get_plans line 68: init_db(); the caller's previous outcome is dropped
GetEnter(c, profile, dayArg) ==
  /\ pc[c] = "idle"
  /\ fileExists' = TRUE
  /\ tableExists' = TRUE
  /\ rows' = CreateTableIfNotExists(tableExists, rows)
  /\ req' = [req EXCEPT ![c] = Request("get_plans", profile, NoArg, dayArg, NoArg)]
  /\ res' = [res EXCEPT ![c] = NoCall]
  /\ adm' = [adm EXCEPT ![c] = {}]
  /\ pc' = [pc EXCEPT ![c] = "get_resolve"]
  /\ UNCHANGED << seq, insertedAt, last, pend >>

\* get_plans lines 69-70: if day is None: day = _today_weekday()
GetResolve(c, now, tz) ==
  LET day == IF req[c].dayArg = None THEN _today_weekday(now, tz)
             ELSE req[c].dayArg
  IN /\ pc[c] = "get_resolve"
     /\ req' = [req EXCEPT ![c].day = day]
     /\ adm' = [adm EXCEPT ![c] = SelectLatest(rows, req[c].profile, day)]
     /\ pc' = [pc EXCEPT ![c] = "get_select"]
     /\ UNCHANGED << dbvars, last, pend, res >>

\* get_plans lines 71-75: the SELECT and fetchone()
GetSelect(c) ==
  /\ pc[c] = "get_select"
  /\ \E text \in SelectLatest(Visible(c), req[c].profile, req[c].day) :
       req' = [req EXCEPT ![c].text = text]
  /\ pc' = [pc EXCEPT ![c] = "get_return"]
  /\ UNCHANGED << dbvars, last, pend, res, adm >>

\* get_plans line 76: return row[0] if row else ""
GetReturn(c) ==
  /\ pc[c] = "get_return"
  /\ res' = [res EXCEPT ![c] =
               Outcome("get_plans", TRUE, NoArg, "none", NoId, req[c].text,
                       req[c].profile, req[c].dayArg, req[c].day, NoArg, 0,
                       << >>)]
  /\ pc' = [pc EXCEPT ![c] = "idle"]
  /\ UNCHANGED << dbvars, last, req, pend, adm >>

SaveEnterCall ==
  \E c \in Callers, profile \in ConcProfiles, plan_text \in Texts,
     day \in ConcDays, source \in Sources :
    SaveEnter(c, profile, plan_text, day, source)

SaveStampStep == \E c \in Callers, now \in Instants : SaveStamp(c, now)

SaveInsertStep == \E c \in Callers : SaveInsert(c)

SaveBusyStep == \E c \in Callers : SaveBusy(c)

SaveCommitStep == \E c \in Callers : SaveCommit(c)

SaveReturnStep == \E c \in Callers : SaveReturn(c)

GetEnterCall ==
  \E c \in Callers, profile \in ConcProfiles, dayArg \in ConcDays \cup {None} :
    GetEnter(c, profile, dayArg)

GetResolveStep ==
  \E c \in Callers, now \in Instants, tz \in TzOffsets : GetResolve(c, now, tz)

GetSelectStep == \E c \in Callers : GetSelect(c)

GetReturnStep == \E c \in Callers : GetReturn(c)

NextConc ==
  \/ SaveEnterCall \/ SaveStampStep \/ SaveInsertStep \/ SaveBusyStep
  \/ SaveCommitStep \/ SaveReturnStep
  \/ GetEnterCall \/ GetResolveStep \/ GetSelectStep \/ GetReturnStep

SpecConc == Init /\ [][NextConc]_vars


\* ================================================================= claims
RowIdx == 1..Len(rows)

\* row i is one get_plans(profile, day) selects from
IsFor(i, profile, day) ==
  rows[i].profile = profile /\ rows[i].day_of_the_week = day

\* C1 (amended): get_latest(profile, day) with the day given, when it returns,
\* returns the plan_text of a row with exactly that profile and day whose
\* created_at no other such row exceeds, and "" when there is no such row.
\* It raises only the store's OperationalError, and only when the store
\* refuses: the table is not there and could not be created, or another
\* process holds the exclusive lock. A raising call has returned no text.
C1_ExplicitDayLatest ==
  (last.op = "get_plans" /\ last.dayArg # None) =>
    /\ last.ok =>
         IF \E i \in RowIdx : IsFor(i, last.profile, last.dayArg)
           THEN \E i \in RowIdx :
                  /\ IsFor(i, last.profile, last.dayArg)
                  /\ rows[i].plan_text = last.text
                  /\ \A j \in RowIdx :
                       IsFor(j, last.profile, last.dayArg) =>
                         ~TextLess(rows[i].created_at, rows[j].created_at)
           ELSE last.text = ""
    /\ ~last.ok =>
         /\ last.err = "OperationalError"
         /\ last.text = NoArg
         /\ \/ last.refusal = "exclusive"
            \/ last.refusal \in Refusals \ {"none"} /\ ~tableExists

\* C1 as stated: an explicit-day get_latest never raises; it returns the
\* latest matching row's text, or "" when no row matches.
C1_NeverRaises ==
  (last.op = "get_plans" /\ last.dayArg # None) =>
    /\ last.ok
    /\ IF \E i \in RowIdx : IsFor(i, last.profile, last.dayArg)
         THEN \E i \in RowIdx :
                /\ IsFor(i, last.profile, last.dayArg)
                /\ rows[i].plan_text = last.text
                /\ \A j \in RowIdx :
                     IsFor(j, last.profile, last.dayArg) =>
                       ~TextLess(rows[i].created_at, rows[j].created_at)
         ELSE last.text = ""

\* C1 witness: two rows of one profile and day with different texts and
\* created_at values, and a get for them that returned the newer text.
C1_Witness ==
  /\ last.op = "get_plans" /\ last.ok
  /\ last.dayArg = "Saturday" /\ last.text = "B"
  /\ Len(rows) = 2
  /\ IsFor(1, last.profile, "Saturday") /\ IsFor(2, last.profile, "Saturday")
  /\ rows[1].plan_text = "B" /\ rows[2].plan_text = "A"
  /\ TextLess(rows[2].created_at, rows[1].created_at)

\* C2: when the row saved last for (profile, day) was stamped at a clock
\* reading strictly later than every other row of that pair, the text a
\* following get_latest(profile, day) returns is that row's text.
C2_LatestWins ==
  \A n \in RowIdx :
    ( /\ last.op = "get_plans" /\ last.ok
      /\ IsFor(n, last.profile, last.day)
      /\ \A j \in RowIdx \ {n} :
           IsFor(j, last.profile, last.day) =>
             j < n /\ Later(insertedAt[n], insertedAt[j]) )
    => last.text = rows[n].plan_text

\* C2 witness: A saved at midnight sharp, B one microsecond later for the
\* same pair, then a get that returned B.
C2_Witness ==
  /\ last.op = "get_plans" /\ last.ok /\ last.text = "B"
  /\ Len(rows) = 2
  /\ IsFor(1, last.profile, last.day) /\ IsFor(2, last.profile, last.day)
  /\ rows[1].plan_text = "A" /\ rows[2].plan_text = "B"
  /\ insertedAt[1].microsecond = 0 /\ insertedAt[2].microsecond = 1

\* C3: the ids of the rows grow strictly in insertion order (so they are
\* pairwise distinct), and the id a save returns is the id of the row that
\* save inserted.
C3_MonotonicIds ==
  /\ \A i, j \in RowIdx : i < j => rows[i].id < rows[j].id
  /\ (last.op = "save_plan" /\ last.ok) =>
       /\ Len(rows) > 0
       /\ rows[Len(rows)] = NewRow(last.id, last.profile, last.text,
                                   rows[Len(rows)].created_at,
                                   rows[Len(rows)].source, last.dayArg)
       /\ \A i \in RowIdx : rows[i].id = last.id => i = Len(rows)

\* C3 witness: a second successful save has just returned its id.
C3_Witness ==
  /\ last.op = "save_plan" /\ last.ok /\ Len(rows) = 2
  /\ last.id = rows[2].id /\ rows[1].id < rows[2].id

\* C4: a save for (p, d) leaves what get_latest(p2, d2) can return unchanged
\* for every other pair, and the text a get_latest(p2, d2) returns is
\* determined by the rows of (p2, d2) alone.
C4_Isolation ==
  [][ /\ Len(rows') = Len(rows) + 1 =>
           \A p2 \in Profiles, d2 \in QueryDays :
             ~(rows'[Len(rows')].profile = p2
                 /\ rows'[Len(rows')].day_of_the_week = d2) =>
               SelectLatest(rows', p2, d2) = SelectLatest(rows, p2, d2)
      /\ (last'.op = "get_plans" /\ last'.ok) =>
           last'.text \in SelectLatest(
             SelectSeq(rows', LAMBDA r : r.profile = last'.profile
                                         /\ r.day_of_the_week = last'.day),
             last'.profile, last'.day) ]_vars

\* C4 witness: A saved for p1 on Saturday, then B for another profile or day;
\* the last call was that second save.
C4_Witness ==
  /\ last.op = "save_plan" /\ last.ok /\ Len(rows) = 2
  /\ IsFor(1, "p1", "Saturday") /\ ~IsFor(2, "p1", "Saturday")
  /\ rows[1].plan_text = "A" /\ rows[2].plan_text = "B"

\* the full name of the local weekday at UTC reading t in time zone tz
LocalWeekday(t, tz) ==
  LET h == t.hour + tz
      k == IF h < 0 THEN t.date - 1 ELSE IF h > 23 THEN t.date + 1 ELSE t.date
  IN WeekdayName[Calendar[k].weekday]

\* C5: get_latest(p) with the day omitted returns what get_latest(p, W) can
\* return, W being the local weekday's full name at the call; a day that is
\* given is the day queried. A get_latest that raises has failed on the store
\* before any row was read, with the same error whether or not the day was
\* given, and a day that was given has not been replaced.
C5_DefaultDay ==
  last.op = "get_plans" =>
    IF last.ok
      THEN IF last.dayArg = None
             THEN last.text \in SelectLatest(rows, last.profile,
                                             LocalWeekday(last.now, last.tz))
             ELSE last.day = last.dayArg
      ELSE /\ last.err = "OperationalError" /\ last.text = NoArg
           /\ last.dayArg # None => last.day \in {NoArg, last.dayArg}

\* C5 witness: the local day is still Friday while the UTC day is Saturday,
\* a Saturday row exists for the profile, and the get without a day found
\* nothing.
C5_Witness ==
  /\ last.op = "get_plans" /\ last.ok /\ last.dayArg = None /\ last.tz = -1
  /\ LocalWeekday(last.now, last.tz) = "Friday"
  /\ \E i \in RowIdx : IsFor(i, last.profile, "Saturday")
  /\ last.text = ""

\* C6: every step keeps each existing row as it is and where it is; the
\* table grows by at most one row per step and only in a successful save;
\* ensure_schema and get_latest leave the rows unchanged.
C6_AppendOnly ==
  [][ /\ Len(rows') >= Len(rows)
      /\ \A i \in RowIdx : rows'[i] = rows[i]
      /\ Len(rows') <= Len(rows) + 1
      /\ Len(rows') = Len(rows) + 1 => (last'.op = "save_plan" /\ last'.ok)
      /\ last'.op \in {"init_db", "get_plans"} => rows' = rows ]_vars

\* C6 witness: ensure_schema was called on a table that holds two rows.
C6_Witness == last.op = "init_db" /\ last.ok /\ Len(rows) = 2 /\ tableExists

\* C7: every connection a call of ensure_schema, save or get_latest opened
\* is released when the call returns or raises (a connection nothing refers
\* to any more counts as released).
C7_ConnectionsReleased ==
  last.op \in {"init_db", "save_plan", "get_plans"} =>
    \A i \in 1..Len(last.conns) : last.conns[i] # "open"

\* C8: a failing save reports an error and no id and leaves the rows and the
\* id sequence as they were; no row ever lacks a required field.
C8_AtomicSave ==
  [][ /\ (last'.op = "save_plan" /\ ~last'.ok) =>
           /\ rows' = rows /\ seq' = seq
           /\ last'.id = NoId
           /\ last'.err \in {"IntegrityError", "OperationalError"}
      /\ \A i \in 1..Len(rows') :
           /\ rows'[i].profile # None /\ rows'[i].plan_text # None
           /\ rows'[i].day_of_the_week # None /\ rows'[i].created_at # None ]_vars

\* C8 witness: a save with a null required field failed on a table that
\* holds rows.
C8_Witness ==
  /\ last.op = "save_plan" /\ ~last.ok /\ last.err = "IntegrityError"
  /\ Len(rows) = 2

\* C9: a save with the day omitted (day = "") stores day_of_the_week = "";
\* get_latest(p, "") reads such rows, while get_latest(p) with the day
\* omitted queries a weekday name and never reads them (a get_latest that
\* raises returns nothing).
C9_DayDefaultAsymmetry ==
  /\ (last.op = "save_plan" /\ last.ok /\ last.dayArg = "") =>
       rows[Len(rows)].day_of_the_week = ""
  /\ (last.op = "get_plans" /\ last.ok /\ last.dayArg = None) =>
       /\ last.day # ""
       /\ (\A i \in RowIdx : rows[i].profile = last.profile
                               => rows[i].day_of_the_week = "")
            => last.text = ""
  /\ (last.op = "get_plans" /\ last.ok /\ last.dayArg = ""
        /\ \E i \in RowIdx : IsFor(i, last.profile, "")) =>
       \E i \in RowIdx : IsFor(i, last.profile, "")
                           /\ rows[i].plan_text = last.text

\* C9 witness: the only row of the profile was saved with the day omitted,
\* and a get with the day omitted returned nothing.
C9_Witness ==
  /\ last.op = "get_plans" /\ last.ok /\ last.dayArg = None /\ last.text = ""
  /\ Len(rows) = 1 /\ IsFor(1, last.profile, "") /\ rows[1].plan_text = "A"

\* the text caller c's get_plans has read or returned
GotText(c) == IF pc[c] = "get_return" THEN req[c].text ELSE res[c].text

HasGot(c) == pc[c] = "get_return" \/ res[c].op = "get_plans"

GotDay(c) == IF pc[c] = "get_return" THEN req[c].day ELSE res[c].day

ConcProfile(c) == IF pc[c] = "get_return" THEN req[c].profile ELSE res[c].profile

\* C10 (amended): an interleaved get_latest returns what the committed table
\* offered at some moment of the call, never an uncommitted row; an
\* interleaved save that returns has committed exactly one row bearing the
\* returned id, two such saves have distinct rows, and a save that fails has
\* left no row of its own pending.
C10_NoDirtyReads ==
  /\ \A c \in Callers :
       HasGot(c) =>
         /\ GotText(c) \in adm[c]
         /\ GotText(c) # "" =>
              \E i \in RowIdx : /\ rows[i].profile = ConcProfile(c)
                                /\ rows[i].day_of_the_week = GotDay(c)
                                /\ rows[i].plan_text = GotText(c)
  /\ \A c \in Callers :
       (res[c].op = "save_plan" /\ res[c].ok) =>
         /\ Cardinality({ i \in RowIdx : rows[i].id = res[c].id }) = 1
         /\ \E i \in RowIdx :
              /\ rows[i].id = res[c].id
              /\ rows[i].profile = res[c].profile
              /\ rows[i].plan_text = res[c].text
              /\ rows[i].day_of_the_week = res[c].dayArg
  /\ \A c \in Callers :
       (res[c].op = "save_plan" /\ ~res[c].ok /\ pc[c] = "idle") =>
         pend[c] = << >> /\ res[c].id = NoId
  /\ \A c, o \in Callers :
       (c # o /\ res[c].op = "save_plan" /\ res[c].ok
              /\ res[o].op = "save_plan" /\ res[o].ok) =>
         res[c].id # res[o].id

\* C10 as stated: the above, and every interleaved save commits.
C10_BothSavesCommit ==
  /\ C10_NoDirtyReads
  /\ \A c \in Callers : res[c].op = "save_plan" => res[c].ok

\* C10 witness: one caller's get has read the table while the other caller's
\* inserted row B was not yet committed, and it read the committed A.
C10_Witness ==
  \E c, o \in Callers :
    /\ c # o
    /\ pc[c] = "get_return" /\ req[c].text = "A"
    /\ pc[o] = "save_commit"
    /\ Len(pend[o]) = 1 /\ pend[o][1].row.plan_text = "B"
    /\ pend[o][1].row.day_of_the_week = req[c].day

====
